---- MODULE Spec2Model ----
(***************************************************************************)
(* The 2D canvas platformer of src/game.js: the kinematic body, the        *)
(* one-sided platform collision, the superposition ("quantum leap")        *)
(* mechanic, the win condition, restart, and the requestAnimationFrame     *)
(* loop that drives the ticks.  The Instinct Mode input of the 3D           *)
(* prototype of src/src/App.jsx is modelled beside it, in variables of its  *)
(* own, and so is the single-flight init() of the prototype's physics      *)
(* engine wrapper (src/unnamed/part_000).                                  *)
(*                                                                         *)
(* Every length and velocity is an integer number of HALF pixels, so that  *)
(* GRAVITY = 0.5 px per tick is the integer 1.  Px(n) is n pixels.  All    *)
(* the numbers the program computes are multiples of 0.5 for the canvas    *)
(* widths used here (multiples of 16), so its floating point arithmetic    *)
(* is exact and the integer model computes the same values.                *)
(***************************************************************************)
EXTENDS Integers, Sequences, FiniteSets, TLC

VARIABLES
    clientWidth,  \* container.clientWidth, in pixels (the environment)
    width,        \* canvas width   (let width, height)
    height,       \* canvas height = world floor
    player,       \* the Player object
    platforms,    \* sequence of Platform objects
    goal,         \* the Goal object
    gameWon,      \* let gameWon
    keys,         \* const keys = { left, right }
    requestId,    \* gameLoop.requestId: "undefined" or "id"
    rafPending,   \* number of gameLoop callbacks queued by requestAnimationFrame
    last,         \* history: the last handler outcome that was recorded
    track,        \* history: the no-effect outcomes that are recorded as well
    appKeys,          \* App.jsx useKeyboard: the key codes whose entry is true
    touchInstinct,    \* App.jsx controlsRef.current.instinct
    lastInstinctRef,  \* App.jsx lastInstinctRef.current
    instinct,         \* App.jsx const [instinct, setInstinct]
    qPresses,         \* history: presses of Q since the last frame
    touchUsed,        \* history: the Instinct touch button has been used
    initPromise,      \* part_000 let initPromise: 0 (undefined) or a promise
    wasmRuns,         \* the initWasm() invocations, in order
    initCalls,        \* the init() calls, in order, and what each caller sees
    promiseCount      \* promises created so far; a promise is its number

gameVars == <<clientWidth, width, height, player, platforms, goal, gameWon, keys,
              requestId, rafPending, last, track>>

appVars == <<appKeys, touchInstinct, lastInstinctRef, instinct, qPresses, touchUsed>>

rapierVars == <<initPromise, wasmRuns, initCalls, promiseCount>>

vars == <<clientWidth, width, height, player, platforms, goal, gameWon, keys,
          requestId, rafPending, last, track,
          appKeys, touchInstinct, lastInstinctRef, instinct, qPresses, touchUsed,
          initPromise, wasmRuns, initCalls, promiseCount>>

----------------------------------------------------------------------------
(* Units and program constants *)

Px(n) == 2 * n

GRAVITY == 1            \* 0.5 px per tick, in half pixels
PLAYER_SPEED == 5       \* px per tick
JUMP_FORCE == -12       \* px per tick
PLAYER_SIZE == 30       \* this.width = this.height = 30
longLeapX == 250
shortLeapX == 100
leapHeight == 120
hopHeight == 20
CANVAS_PADDING == 32    \* width = container.clientWidth - 32

----------------------------------------------------------------------------
(* Bounds of the model *)

\* the body may walk at most XMarginSteps steps of PLAYER_SPEED pixels out of
\* the canvas on either side
XMarginSteps == 2

\* Container widths, in pixels.  The page loads at FirstClientWidth (a canvas of
\* 320 x 180: both platforms, the floor on either side of them and the goal on
\* the platforms); the window can be resized to the widths of ClientWidths
\* (272 gives a canvas of 240 x 135, where the body spawns inside the goal).
FirstClientWidth == 320 + CANVAS_PADDING
ClientWidths == {272, FirstClientWidth}

\* keys the keyboard delivers: one of each group handleKeyDown tells apart, and
\* "x" for every key it ignores; handleKeyUp tells apart only the first three
Keys == {"ArrowLeft", "d", "x", "ArrowUp", "S", "r"}
UpKeys == {"ArrowLeft", "d", "x"}

\* key codes the keyboard delivers to the 3D prototype
Codes == {"KeyQ", "KeyR", "KeyW"}

\* at most MaxQPresses presses of Q are counted between two frames
MaxQPresses == 3

\* at most MaxInitCalls calls of the physics engine's init() are made
MaxInitCalls == 4

\* Handler outcomes that change the body or the game are always recorded in
\* last; an outcome that leaves them alone is recorded only when track names it.
Effective == {"load", "resize", "restart", "tick", "endScreen", "jump",
              "activated", "collapse"}
Rejected == {"left", "right", "keyup", "nojump", "blocked", "norestart",
             "ignored", "miss", "noclick"}

Record(tag) == last' = IF tag \in Effective \cup track THEN tag ELSE last

----------------------------------------------------------------------------
(* Geometry *)

Platform(x, y, w, h) == [x |-> x, y |-> y, width |-> w, height |-> h]

Goal(x, y, size) == [x |-> x, y |-> y, size |-> size]

\* resizeCanvas: width = clientWidth - 32; height = width / (16 / 9)
resizeWidth(cw) == Px(cw - CANVAS_PADDING)

resizeHeight(cw) == (resizeWidth(cw) * 9) \div 16

\* the test level of init()
LevelPlatforms(w, h) ==
    << Platform(Px(50), h - Px(50), Px(200), Px(20)),
       Platform(w - Px(250), h - Px(50), Px(200), Px(20)) >>

LevelGoal(w, h) == Goal(w - Px(150), h - Px(90), Px(40))

\* (variant: a body that is created grounded)
NewPlayer_Grounded(h) ==
    [ width |-> Px(PLAYER_SIZE), height |-> Px(PLAYER_SIZE),
      x |-> Px(100), y |-> h - Px(PLAYER_SIZE) - Px(50),
      dx |-> 0, dy |-> 0, onGround |-> TRUE,
      isInSuperposition |-> FALSE, ghosts |-> << >> ]

\* new Player(), then init() places it on the starting platform
NewPlayer(h) ==
    [ width |-> Px(PLAYER_SIZE), height |-> Px(PLAYER_SIZE),
      x |-> Px(100), y |-> h - Px(PLAYER_SIZE) - Px(50),
      dx |-> 0, dy |-> 0, onGround |-> FALSE,
      isInSuperposition |-> FALSE, ghosts |-> << >> ]

SpawnPlayer(plats, h) ==
    LET p == NewPlayer(h)
    IN  [p EXCEPT !.x = plats[1].x + Px(50), !.y = plats[1].y - p.height]

----------------------------------------------------------------------------
(* Player.update *)

\* the body's horizontal span overlaps the platform's
OverlapsX(p, pl) == p.x + p.width > pl.x /\ p.x < pl.x + pl.width

\* (variant: the body is caught whenever its bottom edge is at or below the
\* platform's top, wherever it came from)
Lands_TwoSided(p, pl) ==
    /\ OverlapsX(p, pl)
    /\ p.y + p.height >= pl.y

\* (variant: a bottom edge that starts exactly on the platform's top is not
\* a crossing)
Lands_Strict(p, pl) ==
    /\ OverlapsX(p, pl)
    /\ p.y + p.height >= pl.y
    /\ (p.y + p.height) - p.dy < pl.y

\* the downward-crossing test of the platform loop, on the body after its move
Lands(p, pl) ==
    /\ OverlapsX(p, pl)
    /\ p.y + p.height >= pl.y
    /\ (p.y + p.height) - p.dy <= pl.y

\* index of the first platform that catches the body, 0 when none does
FirstLanding(p, plats) ==
    IF \E i \in 1..Len(plats) : Lands(p, plats[i])
    THEN CHOOSE i \in 1..Len(plats) :
            /\ Lands(p, plats[i])
            /\ \A j \in 1..(i - 1) : ~Lands(p, plats[j])
    ELSE 0

\* (variant: the onGround test is not negated)
BelowFloor_OnGround(p, h) == p.y + p.height > h /\ p.onGround

\* (variant: the top edge is tested, not the bottom edge)
BelowFloor_TopEdge(p, h) == p.y > h /\ ~p.onGround

\* the floor fallback
BelowFloor(p, h) == p.y + p.height > h /\ ~p.onGround

\* (variant: gravity acts only on a body that is not rising)
update_FloatUp(p, plats, h) ==
    IF p.isInSuperposition THEN p
    ELSE
      LET g == IF p.dy < 0 THEN 0 ELSE GRAVITY
          moved == [p EXCEPT !.x = p.x + p.dx,
                             !.dy = p.dy + g,
                             !.y = p.y + p.dy + g]
          hit == FirstLanding(moved, plats)
          resolved ==
              IF hit # 0
              THEN [moved EXCEPT !.y = plats[hit].y - moved.height,
                                 !.dy = 0,
                                 !.onGround = TRUE]
              ELSE [moved EXCEPT !.onGround = FALSE]
      IN  IF BelowFloor(resolved, h)
          THEN [resolved EXCEPT !.y = h - resolved.height,
                                !.dy = 0,
                                !.onGround = TRUE]
          ELSE resolved

update(p, plats, h) ==
    IF p.isInSuperposition THEN p
    ELSE
      LET moved == [p EXCEPT !.x = p.x + p.dx,
                             !.dy = p.dy + GRAVITY,
                             !.y = p.y + p.dy + GRAVITY]
          hit == FirstLanding(moved, plats)
          resolved ==
              IF hit # 0
              THEN [moved EXCEPT !.y = plats[hit].y - moved.height,
                                 !.dy = 0,
                                 !.onGround = TRUE]
              ELSE [moved EXCEPT !.onGround = FALSE]
      IN  IF BelowFloor(resolved, h)
          THEN [resolved EXCEPT !.y = h - resolved.height,
                                !.dy = 0,
                                !.onGround = TRUE]
          ELSE resolved

----------------------------------------------------------------------------
(* Player.jump, Player.enterSuperposition, Player.collapse *)

\* (variant: the grounded test is missing)
jump_Airborne(p) ==
    IF ~p.isInSuperposition
    THEN [p EXCEPT !.dy = Px(JUMP_FORCE)]
    ELSE p

jump(p) ==
    IF p.onGround /\ ~p.isInSuperposition
    THEN [p EXCEPT !.dy = Px(JUMP_FORCE)]
    ELSE p

\* (variant: a body is taken as grounded when it is not moving vertically)
Blocked_WhenMoving(p) == p.dy # 0 \/ p.isInSuperposition

\* (variant: the grounded test is missing)
Blocked_OnlyWhenActive(p) == p.isInSuperposition

\* enterSuperposition returns early ("Superposition blocked.")
Blocked(p) == ~p.onGround \/ p.isInSuperposition

\* (variant: left is tested before right)
facingDirection_LeftFirst(k) == IF k.left THEN -1 ELSE IF k.right THEN 1 ELSE 1

facingDirection(k) == IF k.right THEN 1 ELSE IF k.left THEN -1 ELSE 1

\* (variant: the high leap rises only twice the height of the hop)
Ghosts_LowLeap(x, y, f) ==
    << [x |-> x + Px(longLeapX) * f,  y |-> y - Px(leapHeight)],
       [x |-> x + Px(shortLeapX) * f, y |-> y - Px(hopHeight) * 2],
       [x |-> x + Px(shortLeapX) * f, y |-> y - Px(hopHeight)] >>

Ghosts(x, y, f) ==
    << [x |-> x + Px(longLeapX) * f,  y |-> y - Px(leapHeight)],
       [x |-> x + Px(shortLeapX) * f, y |-> y - (Px(leapHeight) * 3) \div 2],
       [x |-> x + Px(shortLeapX) * f, y |-> y - Px(hopHeight)] >>

\* (variant: a repeated intent computes the ghosts again)
enterSuperposition_Again(p, k) ==
    IF ~p.onGround THEN p
    ELSE [p EXCEPT !.isInSuperposition = TRUE,
                   !.ghosts = Ghosts(p.x, p.y, facingDirection(k))]

enterSuperposition(p, k) ==
    IF Blocked(p) THEN p
    ELSE [p EXCEPT !.isInSuperposition = TRUE,
                   !.ghosts = Ghosts(p.x, p.y, facingDirection(k))]

\* (variant: the ghosts are not cleared)
collapse_KeepsGhosts(p, targetX, targetY) ==
    [p EXCEPT !.x = targetX, !.y = targetY,
              !.isInSuperposition = FALSE,
              !.dy = 0, !.onGround = FALSE]

collapse(p, targetX, targetY) ==
    [p EXCEPT !.x = targetX, !.y = targetY,
              !.isInSuperposition = FALSE, !.ghosts = << >>,
              !.dy = 0, !.onGround = FALSE]

----------------------------------------------------------------------------
(* handleCanvasClick *)

\* (variant: the edges of the box are excluded)
InGhost_Exclusive(p, ghost, clickX, clickY) ==
    /\ clickX > ghost.x
    /\ clickX < ghost.x + p.width
    /\ clickY > ghost.y
    /\ clickY < ghost.y + p.height

\* (variant: a click one pixel outside the box still selects the ghost)
InGhost_Padded(p, ghost, clickX, clickY) ==
    /\ clickX >= ghost.x - Px(1)
    /\ clickX <= ghost.x + p.width + Px(1)
    /\ clickY >= ghost.y - Px(1)
    /\ clickY <= ghost.y + p.height + Px(1)

\* the click lies in the ghost's box, edges included
InGhost(p, ghost, clickX, clickY) ==
    /\ clickX >= ghost.x
    /\ clickX <= ghost.x + p.width
    /\ clickY >= ghost.y
    /\ clickY <= ghost.y + p.height

\* index of the first ghost whose box holds the click, 0 when none does
FirstGhost(p, clickX, clickY) ==
    IF \E i \in 1..Len(p.ghosts) : InGhost(p, p.ghosts[i], clickX, clickY)
    THEN CHOOSE i \in 1..Len(p.ghosts) :
            /\ InGhost(p, p.ghosts[i], clickX, clickY)
            /\ \A j \in 1..(i - 1) : ~InGhost(p, p.ghosts[j], clickX, clickY)
    ELSE 0

canvasClick(p, clickX, clickY) ==
    IF ~p.isInSuperposition THEN p
    ELSE LET i == FirstGhost(p, clickX, clickY)
         IN  IF i = 0 THEN p ELSE collapse(p, p.ghosts[i].x, p.ghosts[i].y)

----------------------------------------------------------------------------
(* gameLoop *)

\* (variant: rectangles that only touch count as overlapping)
ReachedGoal_Touching(p, g) ==
    /\ p.x <= g.x + g.size
    /\ p.x + p.width >= g.x
    /\ p.y <= g.y + g.size
    /\ p.y + p.height >= g.y

\* the win condition: body rectangle and goal square overlap
ReachedGoal(p, g) ==
    /\ p.x < g.x + g.size
    /\ p.x + p.width > g.x
    /\ p.y < g.y + g.size
    /\ p.y + p.height > g.y

keySpeed(k) == IF k.right THEN Px(PLAYER_SPEED)
               ELSE IF k.left THEN -Px(PLAYER_SPEED)
               ELSE 0

\* one call of gameLoop; pend is the number of callbacks still queued
gameLoop(p, won, k, plats, g, h, req, pend) ==
    IF won
    THEN [player |-> p, gameWon |-> won, requestId |-> req, rafPending |-> pend]
    ELSE LET q == update([p EXCEPT !.dx = keySpeed(k)], plats, h)
         IN  [ player |-> q,
               gameWon |-> ReachedGoal(q, g),
               requestId |-> "id",
               rafPending |-> pend + 1 ]

----------------------------------------------------------------------------
(* init *)

\* (variant: every init() calls gameLoop())
StartsLoop_Always(req, won) == TRUE

\* "Start the game loop if it's not already running"; won is gameWon as init left it
StartsLoop(req, won) == req = "undefined" \/ won

init(cw, k, req, pend) ==
    LET w == resizeWidth(cw)
        h == resizeHeight(cw)
        plats == LevelPlatforms(w, h)
        g == LevelGoal(w, h)
        p == SpawnPlayer(plats, h)
        won == FALSE
        loop == IF StartsLoop(req, won)
                THEN gameLoop(p, won, k, plats, g, h, req, pend)
                ELSE [player |-> p, gameWon |-> won, requestId |-> req,
                      rafPending |-> pend]
    IN  [ clientWidth |-> cw, width |-> w, height |-> h, platforms |-> plats,
          goal |-> g, player |-> loop.player, gameWon |-> loop.gameWon,
          requestId |-> loop.requestId, rafPending |-> loop.rafPending ]

\* the variables init() assigns take the values of the record r
InitSets(r) ==
    /\ clientWidth' = r.clientWidth
    /\ width' = r.width
    /\ height' = r.height
    /\ platforms' = r.platforms
    /\ goal' = r.goal
    /\ player' = r.player
    /\ gameWon' = r.gameWon
    /\ requestId' = r.requestId
    /\ rafPending' = r.rafPending

----------------------------------------------------------------------------
(* src/src/App.jsx: the keyboard hook, the touch controls and the Instinct *)
(* Mode input of BuckAndSled's frame callback                              *)

\* useState({}) of useKeyboard, the refs and useState(false) of App
InitApp ==
    /\ appKeys = {}
    /\ touchInstinct = FALSE
    /\ lastInstinctRef = FALSE
    /\ instinct = FALSE
    /\ qPresses = 0
    /\ touchUsed = FALSE

\* Boolean(keys.KeyQ)
qPressedKeys(ks) == "KeyQ" \in ks

\* const qPressed = qPressedKeys || instinctOverride
qPressed(ks, override) == qPressedKeys(ks) \/ override

\* useKeyboard's keydown listener: keys[event.code] = true
useKeyboardKeyDown(code) ==
    /\ code = "KeyQ" /\ code \notin appKeys => qPresses < MaxQPresses
    /\ appKeys' = appKeys \cup {code}
    /\ qPresses' = IF code = "KeyQ" /\ code \notin appKeys
                   THEN qPresses + 1 ELSE qPresses
    /\ UNCHANGED <<touchInstinct, lastInstinctRef, instinct, touchUsed>>
    /\ UNCHANGED gameVars
    /\ UNCHANGED rapierVars

AppKeyDown == \E code \in Codes : useKeyboardKeyDown(code)

\* useKeyboard's keyup listener: keys[event.code] = false
useKeyboardKeyUp(code) ==
    /\ appKeys' = appKeys \ {code}
    /\ UNCHANGED <<touchInstinct, lastInstinctRef, instinct, qPresses, touchUsed>>
    /\ UNCHANGED gameVars
    /\ UNCHANGED rapierVars

AppKeyUp == \E code \in Codes : useKeyboardKeyUp(code)

\* the Instinct touch button is pressed or let go: TouchControls reports
\* buttons.instinct and handleTouchControls stores it in controlsRef
handleTouchControls(active) ==
    /\ touchInstinct' = active
    /\ touchUsed' = (touchUsed \/ active)
    /\ UNCHANGED <<appKeys, lastInstinctRef, instinct, qPresses>>
    /\ UNCHANGED gameVars
    /\ UNCHANGED rapierVars

AppTouch == \E active \in BOOLEAN : handleTouchControls(active)

\* the Instinct Mode lines of the useFrame callback of BuckAndSled
useFrame ==
    /\ LET q == qPressed(appKeys, touchInstinct)
       IN  IF lastInstinctRef # q
           THEN lastInstinctRef' = q /\ instinct' = q
           ELSE UNCHANGED <<lastInstinctRef, instinct>>
    /\ qPresses' = 0
    /\ UNCHANGED <<appKeys, touchInstinct, touchUsed>>
    /\ UNCHANGED gameVars
    /\ UNCHANGED rapierVars

AppNext == AppKeyDown \/ AppKeyUp \/ AppTouch \/ useFrame

----------------------------------------------------------------------------
(* src/unnamed/part_000: init() of the physics engine wrapper, as          *)
(* useRapierReady of App.jsx and any other importer call it.  initWasm is  *)
(* the WASM initialiser of the rapier package: it returns a promise that   *)
(* the environment fulfils or rejects.                                     *)

\* let initPromise (undefined); nothing has been called yet
InitRapier ==
    /\ initPromise = 0
    /\ wasmRuns = << >>
    /\ initCalls = << >>
    /\ promiseCount = 0

\* (variant: the cache is not consulted)
NoInitPromise_Always(ip) == TRUE

\* if (!initPromise)
NoInitPromise(ip) == ip = 0

\* (variant: the handler leaves the cached promise in place)
onInitError_Keep(ip) == ip

\* the catch handler: initPromise = undefined
onInitError(ip) == 0

\* the settled state of the promise .catch() returned for the run r: a
\* fulfilment passes through, a rejection is thrown again by the handler
caughtState(r) == r.wasm

\* the state of the cached promise number ip, "none" when there is none
promiseState(ip) ==
    IF \E i \in 1..Len(wasmRuns) : wasmRuns[i].caught = ip
    THEN wasmRuns[CHOOSE i \in 1..Len(wasmRuns) : wasmRuns[i].caught = ip].state
    ELSE "none"

\* A call of init().  The function is async: what the caller receives is the
\* promise of that call (a new one), resolved with initPromise, whose outcome
\* it follows.
rapierInit ==
    /\ Len(initCalls) < MaxInitCalls
    /\ IF NoInitPromise(initPromise)
       THEN /\ wasmRuns' = Append(wasmRuns, [ wasm |-> "pending",
                                              caught |-> promiseCount + 1,
                                              state |-> "pending" ])
            /\ initPromise' = promiseCount + 1
            /\ initCalls' = Append(initCalls, [ returned |-> promiseCount + 2,
                                                follows |-> promiseCount + 1,
                                                during |-> promiseState(initPromise),
                                                invoked |-> TRUE,
                                                state |-> "pending" ])
            /\ promiseCount' = promiseCount + 2
       ELSE /\ initCalls' = Append(initCalls, [ returned |-> promiseCount + 1,
                                                follows |-> initPromise,
                                                during |-> promiseState(initPromise),
                                                invoked |-> FALSE,
                                                state |-> "pending" ])
            /\ promiseCount' = promiseCount + 1
            /\ UNCHANGED <<initPromise, wasmRuns>>
    /\ UNCHANGED gameVars
    /\ UNCHANGED appVars

\* the environment settles the promise initWasm returned for run i
initWasmSettles(i, outcome) ==
    /\ wasmRuns[i].wasm = "pending"
    /\ wasmRuns' = [wasmRuns EXCEPT ![i].wasm = outcome]
    /\ UNCHANGED <<initPromise, initCalls, promiseCount>>
    /\ UNCHANGED gameVars
    /\ UNCHANGED appVars

WasmSettles ==
    \E i \in 1..Len(wasmRuns), outcome \in {"fulfilled", "rejected"} :
        initWasmSettles(i, outcome)

\* the reaction .catch() registered for run i runs
catchReaction(i) ==
    /\ wasmRuns[i].wasm # "pending"
    /\ wasmRuns[i].state = "pending"
    /\ wasmRuns' = [wasmRuns EXCEPT ![i].state = caughtState(wasmRuns[i])]
    /\ initPromise' = IF wasmRuns[i].wasm = "rejected"
                      THEN onInitError(initPromise)
                      ELSE initPromise
    /\ UNCHANGED <<initCalls, promiseCount>>
    /\ UNCHANGED gameVars
    /\ UNCHANGED appVars

CatchRuns == \E i \in 1..Len(wasmRuns) : catchReaction(i)

\* the promise init() returned to caller c settles as the promise it follows:
\* the caller's then/catch (useRapierReady: ready or error) sees the outcome
callerObserves(c) ==
    /\ initCalls[c].state = "pending"
    /\ promiseState(initCalls[c].follows) \in {"fulfilled", "rejected"}
    /\ initCalls' = [initCalls EXCEPT ![c].state = promiseState(initCalls[c].follows)]
    /\ UNCHANGED <<initPromise, wasmRuns, promiseCount>>
    /\ UNCHANGED gameVars
    /\ UNCHANGED appVars

CallerObserves == \E c \in 1..Len(initCalls) : callerObserves(c)

RapierNext == rapierInit \/ WasmSettles \/ CatchRuns \/ CallerObserves

----------------------------------------------------------------------------
(* The state machine *)

\* the state once the script has run: keys released, then the first init()
InitGame ==
    LET r == init(FirstClientWidth, [left |-> FALSE, right |-> FALSE], "undefined", 0)
    IN  /\ keys = [left |-> FALSE, right |-> FALSE]
        /\ clientWidth = r.clientWidth
        /\ width = r.width
        /\ height = r.height
        /\ platforms = r.platforms
        /\ goal = r.goal
        /\ player = r.player
        /\ gameWon = r.gameWon
        /\ requestId = r.requestId
        /\ rafPending = r.rafPending
        /\ last = "load"
        /\ InitApp
        /\ InitRapier

InRange(x) ==
    /\ x >= -Px(XMarginSteps * PLAYER_SPEED)
    /\ x <= width + Px(XMarginSteps * PLAYER_SPEED)

\* the browser runs a queued gameLoop callback
Frame ==
    /\ rafPending > 0
    /\ LET r == gameLoop(player, gameWon, keys, platforms, goal, height,
                         requestId, rafPending - 1)
       IN  /\ InRange(r.player.x)
           /\ player' = r.player
           /\ gameWon' = r.gameWon
           /\ requestId' = r.requestId
           /\ rafPending' = r.rafPending
    /\ Record(IF gameWon THEN "endScreen" ELSE "tick")
    /\ UNCHANGED <<clientWidth, width, height, platforms, goal, keys, track>>
    /\ UNCHANGED appVars
    /\ UNCHANGED rapierVars

IsLeft(key) == key \in {"ArrowLeft", "a"}
IsRight(key) == key \in {"ArrowRight", "d"}
IsJump(key) == key \in {"ArrowUp", "w", " "}
IsSuperposition(key) == key \in {"s", "S"}
IsRestart(key) == key \in {"r", "R"}

\* (variant: the game status is not tested)
RestartAccepted_Always(key, won) == IsRestart(key)

\* the restart branch of handleKeyDown is taken
RestartAccepted(key, won) == IsRestart(key) /\ won

keyDownTag(key) ==
    IF IsLeft(key) THEN "left"
    ELSE IF IsRight(key) THEN "right"
    ELSE IF IsJump(key)
         THEN (IF jump(player) = player THEN "nojump" ELSE "jump")
    ELSE IF IsSuperposition(key)
         THEN (IF Blocked(player) THEN "blocked" ELSE "activated")
    ELSE IF RestartAccepted(key, gameWon) THEN "restart"
    ELSE IF IsRestart(key) THEN "norestart"
    ELSE "ignored"

handleKeyDown(key) ==
    /\ Record(keyDownTag(key))
    /\ UNCHANGED track
    /\ UNCHANGED appVars
    /\ UNCHANGED rapierVars
    /\ keys' = [ left  |-> keys.left \/ IsLeft(key),
                 right |-> keys.right \/ IsRight(key) ]
    /\ IF RestartAccepted(key, gameWon)
       THEN InitSets(init(clientWidth, keys, requestId, rafPending))
       ELSE /\ player' = IF IsJump(key) THEN jump(player)
                         ELSE IF IsSuperposition(key)
                              THEN enterSuperposition(player, keys)
                              ELSE player
            /\ UNCHANGED <<clientWidth, width, height, platforms, goal, gameWon,
                           requestId, rafPending>>

KeyDown == \E key \in Keys : handleKeyDown(key)

handleKeyUp(key) ==
    /\ Record("keyup")
    /\ UNCHANGED track
    /\ UNCHANGED appVars
    /\ UNCHANGED rapierVars
    /\ keys' = [ left  |-> keys.left /\ ~IsLeft(key),
                 right |-> keys.right /\ ~IsRight(key) ]
    /\ UNCHANGED <<clientWidth, width, height, player, platforms, goal, gameWon,
                   requestId, rafPending>>

KeyUp == \E key \in UpKeys : handleKeyUp(key)

\* Click positions, relative to the canvas, that stand for every click: for each
\* ghost box the pixel before, on and after each edge and the centre, and the
\* corner of the canvas.
ClickXs ==
    ({0} \cup
     UNION { { player.ghosts[i].x - Px(1), player.ghosts[i].x,
               player.ghosts[i].x + Px(15),
               player.ghosts[i].x + player.width,
               player.ghosts[i].x + player.width + Px(1) }
             : i \in 1..Len(player.ghosts) })
    \cap 0..width

ClickYs ==
    ({0} \cup
     UNION { { player.ghosts[i].y - Px(1), player.ghosts[i].y,
               player.ghosts[i].y + Px(15),
               player.ghosts[i].y + player.height,
               player.ghosts[i].y + player.height + Px(1) }
             : i \in 1..Len(player.ghosts) })
    \cap 0..height

clickTag(p, clickX, clickY) ==
    IF ~p.isInSuperposition THEN "noclick"
    ELSE IF FirstGhost(p, clickX, clickY) = 0 THEN "miss"
    ELSE "collapse"

handleCanvasClick(clickX, clickY) ==
    /\ player' = canvasClick(player, clickX, clickY)
    /\ Record(clickTag(player, clickX, clickY))
    /\ UNCHANGED <<clientWidth, width, height, platforms, goal, gameWon, keys,
                   requestId, rafPending, track>>
    /\ UNCHANGED appVars
    /\ UNCHANGED rapierVars

Click == \E clickX \in ClickXs, clickY \in ClickYs : handleCanvasClick(clickX, clickY)

\* the window is resized: the container takes a new width and init() runs
Resize ==
    \E cw \in ClientWidths :
        /\ InitSets(init(cw, keys, requestId, rafPending))
        /\ Record("resize")
        /\ UNCHANGED <<keys, track>>
        /\ UNCHANGED appVars
        /\ UNCHANGED rapierVars

Next == Frame \/ KeyDown \/ KeyUp \/ Click \/ Resize

Init == InitGame /\ track = {}

Spec == Init /\ [][Next]_vars

\* the browser runs every queued animation-frame callback
FairSpec == Spec /\ WF_vars(Frame)

\* the same program, with rejected enter-superposition attempts recorded in last
InitBlocked == InitGame /\ track = {"blocked"}

SpecBlocked == InitBlocked /\ [][Next]_vars

\* the 3D prototype: its keyboard, its touch button and its frames
AppSpec == Init /\ [][AppNext]_vars

\* the physics engine wrapper: init() calls and the settling of promises
RapierSpec == Init /\ [][RapierNext]_vars

\* promise reactions that are ready to run do run
RapierFairSpec == RapierSpec /\ WF_vars(CatchRuns) /\ WF_vars(CallerObserves)

\* the same program, with rejected restart intents recorded in last
InitNoRestart == InitGame /\ track = {"norestart"}

SpecNoRestart == InitNoRestart /\ [][Next]_vars

\* the same program, with jump intents that change nothing recorded in last
InitNoJump == InitGame /\ track = {"nojump"}

SpecNoJump == InitNoJump /\ [][Next]_vars

\* the same program, with clicks that select no candidate recorded in last
InitMiss == InitGame /\ track = {"miss"}

SpecMiss == InitMiss /\ [][Next]_vars

----------------------------------------------------------------------------
(* Properties *)

\* the body's fields a tick or an input may change
Body(p) == <<p.x, p.y, p.dx, p.dy, p.onGround>>

Superposition(p) == <<p.isInSuperposition, p.ghosts>>

\* C1: after a restart accepted in the Won state the simulation resumes: the
\* game is Playing and a following tick is eventually executed that performs
\* the physics update on the re-created body.
C1_RestartLeadsToTick ==
    (last = "restart") ~> (last = "tick")

\* the same as a state property: after an accepted restart the game is
\* Playing and a gameLoop call is queued
C1_LoopRunsAfterRestart ==
    last = "restart" => (~gameWon /\ rafPending > 0)

\* a stopped loop is never started again: init() starts it only while
\* gameLoop.requestId is undefined
LoopStaysStopped == [][rafPending = 0 => rafPending' = 0]_vars

\* C2: while the game is Won and until a restart, no tick and no input event
\* changes the body's position, velocity, onGround flag or superposition state.
C2_FrozenWhileWon ==
    [][(gameWon /\ gameWon') =>
          (Body(player') = Body(player) /\ Superposition(player') = Superposition(player))]_vars

\* C3: while superposition is active, every tick leaves the body's position
\* (x, y) and velocity (dx, dy) unchanged, whatever movement keys are held.
C3_TickFrozenInSuperposition ==
    [][(Frame /\ player.isInSuperposition) =>
          (/\ player'.x = player.x /\ player'.y = player.y
           /\ player'.dx = player.dx /\ player'.dy = player.dy)]_vars

\* the body's bottom edge is on the top edge of a platform it horizontally
\* overlaps, or on the world floor
Resting ==
    \/ \E i \in 1..Len(platforms) :
          /\ player.x + player.width > platforms[i].x
          /\ player.x < platforms[i].x + platforms[i].width
          /\ player.y + player.height = platforms[i].y
    \/ player.y + player.height = height

\* C4: after every tick executed while not in superposition, onGround is true
\* if and only if the body's bottom edge equals the top edge of a platform the
\* body horizontally overlaps, or equals the world floor height.
C4_OnGroundIffResting ==
    (last = "tick" /\ ~player.isInSuperposition) => (player.onGround <=> Resting)

\* the facing the claims describe: +1 if right is held, otherwise -1 if left
\* is held, otherwise +1
HeldFacing == IF keys.right THEN 1 ELSE IF keys.left THEN -1 ELSE 1

\* C5: superposition becomes active only from a grounded, inactive body, and
\* the candidate list is then exactly [(x + 250 f, y - 120), (x + 100 f, y - 180),
\* (x + 100 f, y - 20)] for the body position (x, y) and the facing f held at
\* that moment; body (100, 200) facing right gives [(350, 80), (200, 20), (200, 180)].
C5_CandidatesOnActivation ==
    [][ /\ (~player.isInSuperposition /\ player'.isInSuperposition) =>
              /\ player.onGround
              /\ player'.ghosts =
                   << [x |-> player.x + Px(250) * HeldFacing, y |-> player.y - Px(120)],
                      [x |-> player.x + Px(100) * HeldFacing, y |-> player.y - Px(180)],
                      [x |-> player.x + Px(100) * HeldFacing, y |-> player.y - Px(20)] >>
        /\ Ghosts(Px(100), Px(200), facingDirection([left |-> FALSE, right |-> TRUE])) =
              << [x |-> Px(350), y |-> Px(80)],
                 [x |-> Px(200), y |-> Px(20)],
                 [x |-> Px(200), y |-> Px(180)] >> ]_vars

\* superposition was just entered by a body facing left
C5_Witness ==
    /\ last = "activated"
    /\ player.isInSuperposition
    /\ player.ghosts[1].x = player.x - Px(250)

\* C6: the candidate list is empty if and only if superposition is inactive,
\* and it holds exactly 3 candidates whenever superposition is active.
C6_GhostsIffActive ==
    /\ (player.ghosts = << >>) <=> ~player.isInSuperposition
    /\ player.isInSuperposition => Len(player.ghosts) = 3

\* superposition is active in a game that is won
C6_Witness ==
    /\ player.isInSuperposition
    /\ Len(player.ghosts) = 3
    /\ gameWon

\* the click (clickX, clickY) lies in candidate i's box, edges included
InBox(i, clickX, clickY) ==
    /\ player.ghosts[i].x <= clickX /\ clickX <= player.ghosts[i].x + Px(30)
    /\ player.ghosts[i].y <= clickY /\ clickY <= player.ghosts[i].y + Px(30)

\* C7: a click made while superposition is active that lies inside a
\* candidate's box collapses to the first such candidate in generated order:
\* the body takes exactly that candidate's position, dy becomes 0, onGround
\* becomes false, superposition becomes inactive and the candidates are emptied.
\* (The body handleCanvasClick leaves for every click of ClickXs x ClickYs.)
C7_CollapseToFirstCandidate ==
    player.isInSuperposition =>
        \A clickX \in ClickXs, clickY \in ClickYs, i \in 1..3 :
            ( /\ InBox(i, clickX, clickY)
              /\ \A j \in 1..(i - 1) : ~InBox(j, clickX, clickY) )
            => LET q == canvasClick(player, clickX, clickY)
               IN  /\ q.x = player.ghosts[i].x
                   /\ q.y = player.ghosts[i].y
                   /\ q.dy = 0
                   /\ ~q.onGround
                   /\ ~q.isInSuperposition
                   /\ q.ghosts = << >>

\* a collapse has just moved the body
C7_Witness ==
    /\ last = "collapse"
    /\ ~player.isInSuperposition
    /\ ~player.onGround

\* C8: an enter-superposition attempt made while the body is airborne or while
\* superposition is already active leaves the body and the superposition state
\* unchanged.
C8_BlockedAttemptChangesNothing ==
    [][ \/ player' = player
        \/ ~ ( /\ ~player.onGround \/ player.isInSuperposition
               /\ \E key \in {"s", "S"} : handleKeyDown(key) ) ]_vars

\* an attempt was just rejected for an airborne body
C8_Witness ==
    /\ last = "blocked"
    /\ ~player.onGround
    /\ ~player.isInSuperposition

\* body rectangle and goal square overlap
Overlap(p, g) ==
    /\ p.x < g.x + g.size
    /\ p.x + p.width > g.x
    /\ p.y < g.y + g.size
    /\ p.y + p.height > g.y

\* C9: the game goes from Playing to Won only in a tick, and exactly when the
\* body and the goal overlap after that tick's update; a tick in the Won state
\* leaves the game Won and does not update the body's position.
C9_WonOnlyByTickOnOverlap ==
    [][ /\ (~gameWon /\ gameWon') => (Frame /\ Overlap(player', goal))
        /\ (Frame /\ ~gameWon) => (gameWon' <=> Overlap(player', goal))
        /\ (Frame /\ gameWon) =>
              (gameWon' /\ player'.x = player.x /\ player'.y = player.y) ]_vars

\* a tick ran in the Won state
C9_Witness ==
    /\ gameWon
    /\ last = "endScreen"
    /\ Overlap(player, goal)

\* the body as init() creates it for a canvas of height h
FreshBody(h) ==
    [ width |-> Px(30), height |-> Px(30), x |-> Px(100), y |-> h - Px(80),
      dx |-> 0, dy |-> 0, onGround |-> FALSE,
      isInSuperposition |-> FALSE, ghosts |-> << >> ]

\* the test level for a canvas of w x h
FreshPlatforms(w, h) ==
    << [x |-> Px(50), y |-> h - Px(50), width |-> Px(200), height |-> Px(20)],
       [x |-> w - Px(250), y |-> h - Px(50), width |-> Px(200), height |-> Px(20)] >>

FreshGoal(w, h) == [x |-> w - Px(150), y |-> h - Px(90), size |-> Px(40)]

\* C10, as stated: a restart issued in the Won state re-creates the level
\* exactly as at first initialisation: the body at the initial spawn position
\* with dx = 0, dy = 0, onGround false, superposition inactive and no
\* candidates, the platform list and goal equal to the initial ones, and the
\* game Playing.
C10_RestartRestoresFirstLevel ==
    last = "restart" =>
        /\ player = FreshBody(Px(180))
        /\ platforms = FreshPlatforms(Px(320), Px(180))
        /\ goal = FreshGoal(Px(320), Px(180))
        /\ ~gameWon

\* C10, amended: a restart issued in the Won state re-creates the level as a
\* first initialisation at the current canvas size does: the body at the spawn
\* position on the first platform with dx = 0, dy = 0, onGround false,
\* superposition inactive and no candidates, the platforms and the goal laid
\* out for the current canvas, and the game Playing; with the container at its
\* first width these are the initial ones.
C10_RestartRestoresLevel ==
    last = "restart" =>
        /\ width = Px(clientWidth - 32) /\ 16 * height = 9 * width
        /\ player = FreshBody(height)
        /\ player.y + player.height = platforms[1].y
        /\ platforms = FreshPlatforms(width, height)
        /\ goal = FreshGoal(width, height)
        /\ ~gameWon
        /\ clientWidth = FirstClientWidth =>
              /\ player = FreshBody(Px(180))
              /\ platforms = FreshPlatforms(Px(320), Px(180))
              /\ goal = FreshGoal(Px(320), Px(180))

\* a restart was just accepted on a canvas that is not the first one
C10_Witness ==
    /\ last = "restart"
    /\ clientWidth # FirstClientWidth
    /\ ~gameWon

\* C11: a restart intent issued while the game is Playing is silently
\* rejected: it leaves the body, the platforms, the goal, the superposition
\* state and the game status unchanged.
C11_RestartRejectedWhilePlaying ==
    [][ \/ UNCHANGED <<player, platforms, goal, gameWon>>
        \/ ~ ( /\ ~gameWon
               /\ \E key \in {"r", "R"} : handleKeyDown(key) ) ]_vars

\* a restart was just rejected in a Playing game whose body is in superposition
C11_Witness ==
    /\ last = "norestart"
    /\ ~gameWon
    /\ player.isInSuperposition

\* C12: a jump intent takes effect only when the body is grounded and not in
\* superposition, in which case it sets dy to -12 and changes nothing else; in
\* every other state (airborne, or superposition active) it leaves the whole
\* body state unchanged.
C12_JumpOnlyWhenGrounded ==
    [][ \/ /\ ~player.onGround \/ player.isInSuperposition
           /\ player' = player
        \/ /\ player.onGround /\ ~player.isInSuperposition
           /\ player' = [player EXCEPT !.dy = Px(-12)]
        \/ ~ \E key \in {"ArrowUp", "w", " "} : handleKeyDown(key) ]_vars

\* a jump intent was just rejected for an airborne body that is moving up
C12_Witness ==
    /\ last = "nojump"
    /\ ~player.onGround
    /\ ~player.isInSuperposition
    /\ player.dy < 0

\* the body's bottom edge
Bottom(p) == p.y + p.height

\* In the tick player -> player', after the horizontal move the body overlaps
\* platform i horizontally and its bottom edge goes from at or above the
\* platform's top (before the vertical move) to at or below it (after the
\* move, at the velocity dy + 0.5).
Crosses(i) ==
    /\ player'.x + player.width > platforms[i].x
    /\ player'.x < platforms[i].x + platforms[i].width
    /\ Bottom(player) <= platforms[i].y
    /\ Bottom(player) + player.dy + 1 >= platforms[i].y

\* C13: in any tick executed while Playing and not in superposition in which,
\* after the horizontal move, the body horizontally overlaps a platform and
\* its bottom edge goes from at or above that platform's top to at or below
\* it, the tick ends with onGround true, dy equal to 0 and y + height exactly
\* equal to the platform's top.
C13_GroundedLanding ==
    [][ (Frame /\ ~gameWon /\ ~player.isInSuperposition) =>
           \A i \in 1..Len(platforms) :
               Crosses(i) => /\ player'.onGround
                             /\ player'.dy = 0
                             /\ Bottom(player') = platforms[i].y ]_vars

\* a tick has just ended with the body caught by the second platform, past
\* the end of the first
C13_Witness ==
    /\ last = "tick"
    /\ ~gameWon
    /\ ~player.isInSuperposition
    /\ player.x >= platforms[1].x + platforms[1].width
    /\ player.x < platforms[2].x + platforms[2].width
    /\ Bottom(player) = platforms[2].y
    /\ player.onGround

\* C14, as stated: in every tick executed while the body is airborne and not
\* in superposition, dy after the tick equals dy before the tick plus the
\* gravity constant 0.5, unless that tick ends with the body caught by a
\* platform or by the floor (in which case dy is 0).
C14_GravityEveryTick ==
    [][ (Frame /\ ~player.onGround /\ ~player.isInSuperposition) =>
           \/ player'.dy = player.dy + 1
           \/ player'.onGround /\ player'.dy = 0 ]_vars

\* C14, amended: in every tick executed while the game is Playing and the
\* body is airborne and not in superposition, dy after the tick equals dy
\* before the tick plus 0.5, unless that tick ends with the body caught by a
\* platform or by the floor (dy is then 0); a tick executed while the game is
\* Won leaves dy unchanged.
C14_GravityWhilePlaying ==
    [][ /\ (Frame /\ ~gameWon /\ ~player.onGround /\ ~player.isInSuperposition) =>
              \/ player'.dy = player.dy + 1
              \/ player'.onGround /\ player'.dy = 0
        /\ (Frame /\ gameWon) => player'.dy = player.dy ]_vars

\* a tick has just left the body falling faster than a body that was grounded
\* one tick ago can fall
C14_Witness ==
    /\ last = "tick"
    /\ ~player.onGround
    /\ ~player.isInSuperposition
    /\ player.dy > 1

\* C15: a select-point intent issued while superposition is active whose
\* point lies inside no candidate's bounding box leaves superposition active
\* and leaves the candidate list and the body state unchanged; a select-point
\* intent issued while superposition is inactive changes nothing.
\* (The body handleCanvasClick leaves for every click of ClickXs x ClickYs.)
C15_MissChangesNothing ==
    \A clickX \in ClickXs, clickY \in ClickYs :
        ( \/ ~player.isInSuperposition
          \/ \A i \in 1..3 : ~InBox(i, clickX, clickY) )
        => LET q == canvasClick(player, clickX, clickY)
           IN  /\ q.isInSuperposition = player.isInSuperposition
               /\ q.ghosts = player.ghosts
               /\ Body(q) = Body(player)
               /\ q = player

\* a click has just missed every candidate: superposition is still active
C15_Witness ==
    /\ last = "miss"
    /\ player.isInSuperposition
    /\ Len(player.ghosts) = 3

\* the three candidates at the fixed offsets from (x, y) for the facing f
Candidates(x, y, f) ==
    << [x |-> x + Px(250) * f, y |-> y - Px(120)],
       [x |-> x + Px(100) * f, y |-> y - Px(180)],
       [x |-> x + Px(100) * f, y |-> y - Px(20)] >>

\* C16: from activation until collapse the three candidates never change: no
\* tick, no movement-key press or release, no jump and no repeated
\* enter-superposition intent alters the candidate list, so the candidates
\* always equal the fixed offsets from the (frozen) body position with the
\* facing captured at activation.
C16_CandidatesFixedWhileActive ==
    [][ /\ (player.isInSuperposition /\ player'.isInSuperposition) =>
              /\ player'.ghosts = player.ghosts
              /\ player'.x = player.x
              /\ player'.y = player.y
        /\ player'.isInSuperposition =>
              \E f \in {-1, 1} :
                  player'.ghosts = Candidates(player'.x, player'.y, f) ]_vars

\* a tick ran in superposition while the key opposite to the captured facing
\* was held: the candidates are still those of the facing at activation
C16_Witness ==
    /\ last = "tick"
    /\ player.isInSuperposition
    /\ keys.left /\ ~keys.right
    /\ player.dx < 0
    /\ player.ghosts = Candidates(player.x, player.y, 1)

\* the tick player -> player' runs the platform loop and some platform
\* catches the body
PlatformCatches ==
    /\ ~gameWon
    /\ ~player.isInSuperposition
    /\ \E i \in 1..Len(platforms) : Crosses(i)

\* in the tick player -> player' the body's bottom edge, after the vertical
\* move at the velocity dy + 0.5, is strictly below the world height
SinksBelowFloor == Bottom(player) + player.dy + 1 > height

\* C17, as stated: in a tick executed while not in superposition, if no
\* platform caught the body and the body's bottom edge is strictly below the
\* world height, the body is clamped so that y + height equals the world
\* height, dy becomes 0 and onGround becomes true; if neither a platform nor
\* the floor caught the body, onGround is false after the tick.
C17_FloorFallbackEveryTick ==
    [][ (Frame /\ ~player.isInSuperposition) =>
           /\ (~PlatformCatches /\ SinksBelowFloor) =>
                  /\ Bottom(player') = height
                  /\ player'.dy = 0
                  /\ player'.onGround
           /\ (~PlatformCatches /\ ~SinksBelowFloor) => ~player'.onGround ]_vars

\* C17, amended: in a tick executed while the game is Playing and the body is
\* not in superposition, if no platform caught the body and the body's bottom
\* edge is strictly below the world height, the body is clamped so that
\* y + height equals the world height, dy becomes 0 and onGround becomes true;
\* if neither a platform nor the floor caught the body, onGround is false
\* after the tick.  A tick executed while the game is Won catches nothing and
\* leaves onGround as it was.
C17_FloorFallbackWhilePlaying ==
    [][ /\ (Frame /\ ~gameWon /\ ~player.isInSuperposition) =>
              /\ (~PlatformCatches /\ SinksBelowFloor) =>
                     /\ Bottom(player') = height
                     /\ player'.dy = 0
                     /\ player'.onGround
              /\ (~PlatformCatches /\ ~SinksBelowFloor) => ~player'.onGround
        /\ (Frame /\ gameWon) => player'.onGround = player.onGround ]_vars

\* a tick has just ended with the body clamped to the floor, beside the
\* platforms
C17_Witness ==
    /\ last = "tick"
    /\ ~player.isInSuperposition
    /\ Bottom(player) = height
    /\ player.dy = 0
    /\ player.onGround
    /\ \A i \in 1..Len(platforms) : ~OverlapsX(player, platforms[i])

\* the tick player -> player' ends with the body stopped on the top of a
\* platform it horizontally overlaps
Snapped ==
    /\ player'.onGround
    /\ player'.dy = 0
    /\ \E i \in 1..Len(platforms) :
          /\ OverlapsX(player', platforms[i])
          /\ Bottom(player') = platforms[i].y

\* the one-sidedness of the platform collision in the tick player -> player':
\* a snap needs a vertical velocity after gravity (dy + 0.5) that is not
\* negative, and a body that moves upward keeps moving upward
OneSided ==
    /\ Snapped => player.dy + 1 >= 0
    /\ player.dy + 1 < 0 =>
          /\ ~Snapped
          /\ player'.dy < 0
          /\ player'.y \in {player.y, player.y + player.dy + 1}

\* C18, as stated: platform collision is one-sided: a tick snaps the body
\* onto a platform only when the body's vertical velocity after gravity is
\* non-negative; a body moving upward through a platform is never stopped or
\* snapped, and a platform never alters the body's horizontal position: x
\* after a tick is always x before plus dx.
C18_OneSidedEveryTick ==
    [][ Frame => /\ OneSided
                 /\ player'.x = player.x + player'.dx ]_vars

\* C18, amended: platform collision is one-sided, as above, and a platform
\* never alters the body's horizontal position: x after a tick executed while
\* the game is Playing and the body is not in superposition is x before plus
\* dx (the velocity that tick takes from the held keys), and any other tick
\* leaves x unchanged whatever dx is.
C18_OneSidedCollision ==
    [][ Frame =>
          /\ OneSided
          /\ (~gameWon /\ ~player.isInSuperposition) =>
                 /\ player'.x = player.x + player'.dx
                 /\ player.dy + 1 < 0 => /\ player'.dy = player.dy + 1
                                         /\ player'.y = player.y + player.dy + 1
          /\ (gameWon \/ player.isInSuperposition) => player'.x = player.x ]_vars

\* a tick has just left the body moving upward inside a platform's slab
C18_Witness ==
    /\ last = "tick"
    /\ player.dy < 0
    /\ ~player.onGround
    /\ \E i \in 1..Len(platforms) :
          /\ OverlapsX(player, platforms[i])
          /\ Bottom(player) > platforms[i].y
          /\ player.y < platforms[i].y + platforms[i].height

\* C19: in the 3D prototype Q is an Instinct Mode toggle: each press of Q
\* flips Instinct mode, and the mode keeps its new value after Q is released
\* until Q is pressed again.  (A frame flips the mode once for each press of Q
\* made since the last frame and does nothing else to it; the Instinct touch
\* button has not been used.)
C19_QTogglesInstinct ==
    [][ (useFrame /\ ~touchUsed) =>
           instinct' = IF qPresses % 2 = 1 THEN ~instinct ELSE instinct ]_vars

\* what the frame callback does instead: after a frame Instinct mode is on
\* exactly while Q or the Instinct touch button is held
InstinctWhileHeld ==
    [][ useFrame => instinct' = ("KeyQ" \in appKeys \/ touchInstinct) ]_vars

\* candidate i's box holds a point of the canvas area [0, width] x [0, height]
OnCanvas(i) ==
    /\ player.ghosts[i].x <= width
    /\ player.ghosts[i].x + Px(30) >= 0
    /\ player.ghosts[i].y <= height
    /\ player.ghosts[i].y + Px(30) >= 0

\* C20: whenever superposition is active, at least one of the three candidate
\* boxes contains a point inside the canvas area [0, width] x [0, height], so
\* that some canvas click collapses the superposition and the player can
\* return to Inactive from every reachable Active state.
C20_SomeCandidateOnCanvas ==
    player.isInSuperposition => \E i \in 1..3 : OnCanvas(i)

\* C21: at any time at most one gameLoop invocation is pending through
\* requestAnimationFrame, over every sequence of init calls (first start,
\* window resize, restart), ticks and wins: a second concurrent loop chain is
\* never started.
C21_OneLoopPending == rafPending <= 1

\* init() has just run, for a restart, while a gameLoop call was queued
C21_Witness ==
    /\ last = "restart"
    /\ rafPending = 1
    /\ ~gameWon

\* C22: whenever superposition is active, onGround is true: superposition is
\* entered only by a grounded body and stays grounded while it is held, and a
\* collapse leaves onGround false, so that a new superposition cannot be
\* entered until a tick has landed the body again.
C22_ActiveOnlyGrounded ==
    [][ /\ player'.isInSuperposition => player'.onGround
        /\ (~player.isInSuperposition /\ player'.isInSuperposition) => player.onGround
        /\ (player.isInSuperposition /\ ~player'.isInSuperposition) =>
              ~player'.onGround
        /\ (~player.onGround /\ ~player.isInSuperposition /\ ~Frame) =>
              ~player'.isInSuperposition ]_vars

\* a tick ran while superposition was held with a movement key down: the body
\* is still grounded
C22_Witness ==
    /\ last = "tick"
    /\ player.isInSuperposition
    /\ player.onGround
    /\ keys.right
    /\ player.dx > 0

\* the boxes of candidates i and j, edges included, have no point in common
\* for the body size 30 x 30
DisjointBoxes(i, j) ==
    \/ player.ghosts[i].x + Px(30) < player.ghosts[j].x
    \/ player.ghosts[j].x + Px(30) < player.ghosts[i].x
    \/ player.ghosts[i].y + Px(30) < player.ghosts[j].y
    \/ player.ghosts[j].y + Px(30) < player.ghosts[i].y

\* C23: the three candidate bounding boxes generated at activation are
\* pairwise disjoint for the body size 30 x 30, so any selected point lies in
\* at most one candidate box and the collapse target does not depend on the
\* order in which candidates are tested.
C23_CandidateBoxesDisjoint ==
    player.isInSuperposition =>
        /\ player.width = Px(30) /\ player.height = Px(30)
        /\ \A i, j \in 1..3 : i # j => DisjointBoxes(i, j)
        /\ \A clickX \in ClickXs, clickY \in ClickYs :
               \A i, j \in 1..3 :
                   (InBox(i, clickX, clickY) /\ InBox(j, clickX, clickY)) => i = j

\* superposition was just entered with the candidates to the right of the
\* body, the second straight above the third
C23_Witness ==
    /\ last = "activated"
    /\ player.isInSuperposition
    /\ player.ghosts[1].x > player.x
    /\ player.ghosts[2].x = player.ghosts[3].x
    /\ player.ghosts[2].y < player.ghosts[3].y

\* C24: in every reachable state of the test level the body's bottom edge is
\* at or above the world floor (y + height <= world height): no sequence of
\* ticks, jumps, leaps and collapses leaves the body below the floor.
C24_NeverBelowFloor == player.y + player.height <= height

\* a tick has just left a falling body with its bottom edge exactly on the
\* floor line, not clamped
C24_Witness ==
    /\ last = "tick"
    /\ player.y + player.height = height
    /\ player.dy > 0
    /\ ~player.onGround

\* no initialisation has failed: no promise of initWasm has been rejected
NoInitFailed == \A i \in 1..Len(wasmRuns) : wasmRuns[i].wasm # "rejected"

\* call c was made while an initialisation was pending or after it succeeded
MadeWhileCached(c) == initCalls[c].during \in {"pending", "fulfilled"}

\* C25, as stated: the physics-engine init() is single-flight: as long as no
\* initialisation has failed, the WASM initialiser is invoked at most once,
\* and every init() call made while an initialisation is pending or after it
\* has succeeded returns the same promise (the cached one) without invoking
\* the initialiser again.
C25_SamePromise ==
    NoInitFailed =>
        /\ Len(wasmRuns) <= 1
        /\ \A c \in 1..Len(initCalls) :
              MadeWhileCached(c) => /\ initCalls[c].returned = wasmRuns[1].caught
                                    /\ ~initCalls[c].invoked

\* C25, amended: as long as no initialisation has failed, the WASM
\* initialiser is invoked at most once, and every init() call made while an
\* initialisation is pending or after it has succeeded returns, without
\* invoking the initialiser again, a promise that settles as the one cached
\* promise does; init() being an async function, it is a new promise for
\* every call, not the cached promise itself.
C25_SingleFlight ==
    NoInitFailed =>
        /\ Len(wasmRuns) <= 1
        /\ \A c \in 1..Len(initCalls) :
              /\ initCalls[c].follows = wasmRuns[1].caught
              /\ initCalls[c].state \in {"pending", wasmRuns[1].state}
              /\ initCalls[c].invoked <=> c = 1
              /\ MadeWhileCached(c) <=> c > 1
              /\ initCalls[c].returned # wasmRuns[1].caught
              /\ \A d \in 1..Len(initCalls) :
                    initCalls[c].returned = initCalls[d].returned => c = d

\* init() was called while the initialisation was pending and again after it
\* had succeeded, and both callers have seen it succeed
C25_Witness ==
    /\ NoInitFailed
    /\ \E c, d \in 1..Len(initCalls) :
          /\ initCalls[c].during = "pending"
          /\ initCalls[d].during = "fulfilled"
          /\ initCalls[c].state = "fulfilled"
          /\ initCalls[d].state = "fulfilled"

\* the initialisation of run i has failed: its cached promise is rejected
InitFailed(i) == wasmRuns[i].state = "rejected"

\* in the state a step leads to, the promise of every failed initialisation
\* is no longer cached and none of its callers has seen a success
FailureCleared ==
    \A i \in 1..Len(wasmRuns') :
        InitFailed(i)' =>
            /\ initPromise' # wasmRuns'[i].caught
            /\ \A c \in 1..Len(initCalls') :
                  (initCalls'[c].follows = wasmRuns'[i].caught)
                     => (initCalls'[c].state \in {"pending", "rejected"})

\* a step that is an init() call made after the latest initialisation failed
\* invokes the WASM initialiser again and caches the new promise
RetryInvokes ==
    ( /\ Len(initCalls') = Len(initCalls) + 1
      /\ Len(wasmRuns) > 0
      /\ InitFailed(Len(wasmRuns)) )
    => /\ Len(wasmRuns') = Len(wasmRuns) + 1
       /\ wasmRuns'[Len(wasmRuns')].wasm = "pending"
       /\ initCalls'[Len(initCalls')].invoked
       /\ initPromise' = wasmRuns'[Len(wasmRuns')].caught

\* C26: if the WASM initialisation fails, every caller that received the
\* pending promise observes the rejection, the cached promise is cleared, and
\* the next init() call invokes the WASM initialiser again (a failure is
\* never cached permanently).
C26_FailureNotCached ==
    /\ [][FailureCleared /\ RetryInvokes]_vars
    /\ \A c \in 1..MaxInitCalls :
          ( /\ c <= Len(initCalls)
            /\ promiseState(initCalls[c].follows) = "rejected" )
          ~> ( /\ c <= Len(initCalls)
               /\ initCalls[c].state = "rejected" )

\* an initialisation failed, the two callers that held its promise have seen
\* the rejection, and a later init() call has invoked the initialiser again
C26_Witness ==
    /\ Len(wasmRuns) = 2
    /\ InitFailed(1)
    /\ Len(initCalls) >= 3
    /\ initCalls[1].state = "rejected"
    /\ initCalls[2].follows = wasmRuns[1].caught
    /\ initCalls[2].state = "rejected"
    /\ initCalls[3].invoked
    /\ initPromise = wasmRuns[2].caught

====
